---- MODULE Spec2Model ----
(***************************************************************************)
(* Configuration discovery engine of claude-config-manager                 *)
(* (src-tauri/src/lib.rs): path info, project listing, the recursive       *)
(* CLAUDE.md scan and the sorted directory listing, over a small file      *)
(* system.                                                                 *)
(*                                                                         *)
(* A file name is the sequence of its bytes (an OsStr on Unix), a String   *)
(* is a sequence of Unicode scalar values, and a path is the sequence of   *)
(* its components below "/".  Tauri runs these non-async commands one at   *)
(* a time, so each command is one action; get_path_info alone is split at  *)
(* its two file-system queries, between which another process may act.     *)
(***************************************************************************)
EXTENDS Integers, Sequences, FiniteSets, TLC

VARIABLES
  fs,        \* the file system: physical path |-> node
  pc,        \* "idle"; "is_dir" while get_path_info is between its two queries;
             \* "scan" while the scan is followed call by call
  pend,      \* the locals of the command under way while pc # "idle"
  ret        \* the reply of the last command, until the front end has taken it

vars == <<fs, pc, pend, ret>>

----------------------------------------------------------------------------
(* Bounds of the model *)

MaxNodes == 3        \* nodes of the file system besides "/"
MaxProjectNodes == 4 \* the same, where only list_projects is checked
MaxPathLen == 3      \* components of a path handed to a command
MaxDepthArg == 1     \* largest explicit max_depth handed to the scan
MaxUnreadable == 1   \* directories without read permission at a time
MaxLinks == 1        \* symbolic links at a time

----------------------------------------------------------------------------
(* File names (bytes) and string literals of the source *)

App == <<97, 112, 112>>                                                  \* "app"
Src == <<83, 114, 99>>                                                   \* "Src"
DotClaude == <<46, 99, 108, 97, 117, 100, 101>>                          \* ".claude"
DotInvalid == <<46, 255>>                                                \* ".\xFF": hidden, not UTF-8
NodeModules == <<110, 111, 100, 101, 95, 109, 111, 100, 117, 108, 101, 115>>  \* "node_modules"
Target == <<116, 97, 114, 103, 101, 116>>                                \* "target"
Dist == <<100, 105, 115, 116>>                                           \* "dist"
Build == <<98, 117, 105, 108, 100>>                                      \* "build"
PyCache == <<95, 95, 112, 121, 99, 97, 99, 104, 101, 95, 95>>            \* "__pycache__"
Vendor == <<118, 101, 110, 100, 111, 114>>                               \* "vendor"
DotGit == <<46, 103, 105, 116>>                                          \* ".git"
ClaudeMd == <<67, 76, 65, 85, 68, 69, 46, 109, 100>>                     \* "CLAUDE.md"
ClaudeLocalMd == <<67, 76, 65, 85, 68, 69, 46, 108, 111, 99, 97, 108, 46, 109, 100>>  \* "CLAUDE.local.md"
CargoToml == <<67, 97, 114, 103, 111, 46, 116, 111, 109, 108>>           \* "Cargo.toml"
PackageJson == <<112, 97, 99, 107, 97, 103, 101, 46, 106, 115, 111, 110>>     \* "package.json"
TsconfigJson == <<116, 115, 99, 111, 110, 102, 105, 103, 46, 106, 115, 111, 110>>  \* "tsconfig.json"
PyprojectToml == <<112, 121, 112, 114, 111, 106, 101, 99, 116, 46, 116, 111, 109, 108>>  \* "pyproject.toml"
GoMod == <<103, 111, 46, 109, 111, 100>>                                 \* "go.mod"
SettingsJson == <<115, 101, 116, 116, 105, 110, 103, 115, 46, 106, 115, 111, 110>>  \* "settings.json"
SettingsLocalJson == <<115, 101, 116, 116, 105, 110, 103, 115, 46, 108, 111, 99, 97, 108, 46, 106, 115, 111, 110>>  \* "settings.local.json"
Rules == <<114, 117, 108, 101, 115>>                                     \* "rules"
Commands == <<99, 111, 109, 109, 97, 110, 100, 115>>                     \* "commands"
Agents == <<97, 103, 101, 110, 116, 115>>                                \* "agents"
Skills == <<115, 107, 105, 108, 108, 115>>                               \* "skills"
DotMcpJson == <<46, 109, 99, 112, 46, 106, 115, 111, 110>>               \* ".mcp.json"
LocalSuffix == <<32, 40, 108, 111, 99, 97, 108, 41>>                     \* " (local)"

\* The names the modelled file systems draw on.
DirNames == {App, Src, DotClaude, NodeModules, DotInvalid}
FileNames == {ClaudeMd, ClaudeLocalMd, CargoToml}
LinkNames == {App}
ProjectDirNames == {App, DotClaude}
ProjectFileNames == {ClaudeMd, CargoToml}
InfoDirNames == {App, Src}
InfoFileNames == {ClaudeMd}
StepDirNames == {App, Src, DotClaude}
StepFileNames == {ClaudeMd}

----------------------------------------------------------------------------
(* Strings and paths *)

\* No reply at hand, no call under way.
None == [op |-> "none"]

\* Option: None is the empty sequence, Some(x) the sequence of x alone.
Nothing == <<>>
Some(x) == <<x>>

\* The path separator '/' and U+FFFD, as sequences so that they are no bare numbers.
SepStr == <<47>>
ReplacementStr == <<65533>>

\* std::str::from_utf8 on a name: the model's names hold ASCII bytes and 0xFF.
IsUtf8(bytes) == \A i \in 1..Len(bytes) : bytes[i] < 128

\* OsStr::to_str
ToStr(bytes) == IF IsUtf8(bytes) THEN Some(bytes) ELSE Nothing

\* OsStr::to_string_lossy: every invalid byte becomes U+FFFD.
ToStringLossy(bytes) ==
  [i \in 1..Len(bytes) |-> IF bytes[i] < 128 THEN bytes[i] ELSE ReplacementStr[1]]

\* char::to_lowercase over a String
ToLowercase(s) ==
  [i \in 1..Len(s) |-> IF s[i] >= 65 /\ s[i] <= 90 THEN s[i] + 32 ELSE s[i]]

\* str::cmp: a < b, lexicographic by scalar value
RECURSIVE StrLess(_, _)
StrLess(a, b) ==
  IF b = <<>> THEN FALSE
  ELSE IF a = <<>> THEN TRUE
  ELSE IF Head(a) # Head(b) THEN Head(a) < Head(b)
  ELSE StrLess(Tail(a), Tail(b))

\* The bytes of a relative path: its components joined by '/'.
RECURSIVE JoinBytes(_)
JoinBytes(p) ==
  IF p = <<>> THEN <<>>
  ELSE IF Len(p) = 1 THEN p[1]
  ELSE p[1] \o SepStr \o JoinBytes(Tail(p))

\* The bytes of an absolute path.
AbsBytes(p) == IF p = <<>> THEN SepStr ELSE SepStr \o JoinBytes(p)

\* PathBuf::from(String).components(): split at '/', empty components dropped.
RECURSIVE SplitFrom(_, _, _)
SplitFrom(s, i, cur) ==
  IF i > Len(s) THEN (IF cur = <<>> THEN <<>> ELSE <<cur>>)
  ELSE IF s[i] = SepStr[1]
       THEN (IF cur = <<>> THEN <<>> ELSE <<cur>>) \o SplitFrom(s, i + 1, <<>>)
       ELSE SplitFrom(s, i + 1, Append(cur, s[i]))

Components(s) == SplitFrom(s, 1, <<>>)

IsPrefix(a, b) == Len(a) <= Len(b) /\ SubSeq(b, 1, Len(a)) = a

\* Path::strip_prefix: the rest of p below base, if p is under base.
StripPrefix(p, base) ==
  IF IsPrefix(base, p) THEN Some(SubSeq(p, Len(base) + 1, Len(p))) ELSE Nothing

Parent(p) == SubSeq(p, 1, Len(p) - 1)
Last(p) == p[Len(p)]

----------------------------------------------------------------------------
(* The file system *)

DirNode(names, readable) ==
  [kind |-> "dir", names |-> names, readable |-> readable, target |-> <<>>]
FileNode == [kind |-> "file", names |-> <<>>, readable |-> TRUE, target |-> <<>>]
LinkNode(target) == [kind |-> "link", names |-> <<>>, readable |-> TRUE, target |-> target]

\* fs::metadata: walk the components from "/", following symbolic links.
RECURSIVE Walk(_, _, _)
Walk(f, at, rest) ==
  IF rest = <<>> THEN [ok |-> TRUE, at |-> at]
  ELSE IF f[at].kind # "dir" THEN [ok |-> FALSE, at |-> at]
  ELSE LET cand == Append(at, Head(rest)) IN
       IF cand \notin DOMAIN f THEN [ok |-> FALSE, at |-> at]
       ELSE Walk(f, IF f[cand].kind = "link" THEN f[cand].target ELSE cand, Tail(rest))

Resolve(f, p) == Walk(f, <<>>, p)

\* Path::exists
PathExists(f, p) == Resolve(f, p).ok

\* Path::is_dir
PathIsDir(f, p) == LET r == Resolve(f, p) IN r.ok /\ f[r.at].kind = "dir"

\* fs::read_dir: [ok, entries], the entries' paths in the directory's order.
ReadDir(f, p) ==
  LET r == Resolve(f, p) IN
  IF r.ok /\ f[r.at].kind = "dir" /\ f[r.at].readable
  THEN [ok |-> TRUE,
        entries |-> [i \in 1..Len(f[r.at].names) |-> Append(p, f[r.at].names[i])]]
  ELSE [ok |-> FALSE, entries |-> <<>>]

AddNode(f, parent, name, node) ==
  [q \in DOMAIN f \cup {Append(parent, name)} |->
     IF q = Append(parent, name) THEN node
     ELSE IF q = parent THEN [f[q] EXCEPT !.names = Append(@, name)]
     ELSE f[q]]

RemoveName(names, name) == SelectSeq(names, LAMBDA n : n # name)

\* Remove the node at physical path q with everything below it.
RemoveTree(f, q) ==
  [r \in {x \in DOMAIN f : ~IsPrefix(q, x)} |->
     IF r = Parent(q) THEN [f[r] EXCEPT !.names = RemoveName(@, Last(q))] ELSE f[r]]

\* fs::create_dir_all: [ok, fs]; directories made before a failure stay.
RECURSIVE MkdirWalk(_, _, _)
MkdirWalk(f, at, rest) ==
  IF rest = <<>> THEN [ok |-> TRUE, fs |-> f]
  ELSE LET cand == Append(at, Head(rest)) IN
       IF cand \notin DOMAIN f
       THEN MkdirWalk(AddNode(f, at, Head(rest), DirNode(<<>>, TRUE)), cand, Tail(rest))
       ELSE IF f[cand].kind = "link" THEN MkdirWalk(f, f[cand].target, Tail(rest))
       ELSE IF f[cand].kind = "dir" THEN MkdirWalk(f, cand, Tail(rest))
       ELSE [ok |-> FALSE, fs |-> f]

CreateDirAll(f, p) == MkdirWalk(f, <<>>, p)

\* fs::write: [ok, fs]
WriteFile(f, p) ==
  LET r == Resolve(f, Parent(p)) IN
  IF ~(r.ok /\ f[r.at].kind = "dir") THEN [ok |-> FALSE, fs |-> f]
  ELSE LET q == Append(r.at, Last(p)) IN
       IF q \notin DOMAIN f THEN [ok |-> TRUE, fs |-> AddNode(f, r.at, Last(p), FileNode)]
       ELSE IF f[q].kind = "file" THEN [ok |-> TRUE, fs |-> f]
       ELSE [ok |-> FALSE, fs |-> f]

\* fs::remove_dir_all: [ok, fs].  A symbolic link is removed, not followed; a
\* directory that cannot be read cannot be emptied, and the call fails.
RemoveDirAll(f, p) ==
  LET r == Resolve(f, Parent(p)) IN
  IF p = <<>> \/ ~(r.ok /\ f[r.at].kind = "dir") THEN [ok |-> FALSE, fs |-> f]
  ELSE LET q == Append(r.at, Last(p)) IN
       IF q \notin DOMAIN f \/ f[q].kind = "file" THEN [ok |-> FALSE, fs |-> f]
       ELSE IF \E x \in DOMAIN f : IsPrefix(q, x) /\ f[x].kind = "dir" /\ ~f[x].readable
            THEN [ok |-> FALSE, fs |-> f]
       ELSE [ok |-> TRUE, fs |-> RemoveTree(f, q)]

\* fs::remove_file: [ok, fs]
RemoveFile(f, p) ==
  LET r == Resolve(f, Parent(p)) IN
  IF p = <<>> \/ ~(r.ok /\ f[r.at].kind = "dir") THEN [ok |-> FALSE, fs |-> f]
  ELSE LET q == Append(r.at, Last(p)) IN
       IF q \notin DOMAIN f \/ f[q].kind = "dir" THEN [ok |-> FALSE, fs |-> f]
       ELSE [ok |-> TRUE, fs |-> RemoveTree(f, q)]

----------------------------------------------------------------------------
(* Commands that change the file system *)

\* save_config_file(path, content)
SaveConfigFile(p) ==
  /\ pc = "idle" /\ ret = None
  /\ LET made == CreateDirAll(fs, Parent(p))
         done == IF made.ok THEN WriteFile(made.fs, p) ELSE made
     IN /\ fs' = done.fs
        /\ ret' = [op |-> "save_config_file", ok |-> done.ok]
  /\ UNCHANGED <<pc, pend>>

\* create_directory(path)
CreateDirectory(p) ==
  /\ pc = "idle" /\ ret = None
  /\ LET made == CreateDirAll(fs, p)
     IN /\ fs' = made.fs
        /\ ret' = [op |-> "create_directory", ok |-> made.ok]
  /\ UNCHANGED <<pc, pend>>

\* delete_path(path)
DeletePath(p) ==
  /\ pc = "idle" /\ ret = None
  /\ LET gone == IF PathIsDir(fs, p) THEN RemoveDirAll(fs, p) ELSE RemoveFile(fs, p)
     IN /\ fs' = gone.fs
        /\ ret' = [op |-> "delete_path", ok |-> gone.ok]
  /\ UNCHANGED <<pc, pend>>

----------------------------------------------------------------------------
(* Other processes *)

\* chmod: a directory loses or regains its read permission.
Chmod(q) ==
  /\ pc = "idle" /\ ret = None
  /\ fs' = [fs EXCEPT ![q].readable = ~@]
  /\ UNCHANGED <<pc, pend, ret>>

\* ln -s: a symbolic link named n in directory d, to d itself or a directory above it.
Symlink(d, n, k) ==
  /\ pc = "idle" /\ ret = None
  /\ Append(d, n) \notin DOMAIN fs
  /\ fs' = AddNode(fs, d, n, LinkNode(SubSeq(d, 1, k)))
  /\ UNCHANGED <<pc, pend, ret>>

\* Between the two queries of get_path_info another process makes the queried
\* path a directory (mkdir -p) or removes it (rm -r).
ExternalChange ==
  /\ pc = "is_dir"
  /\ LET p == Components(pend.path) IN
     \/ LET made == CreateDirAll(fs, p) IN
          made.ok /\ made.fs # fs /\ fs' = made.fs
     \/ LET gone == IF PathIsDir(fs, p) THEN RemoveDirAll(fs, p) ELSE RemoveFile(fs, p) IN
          gone.ok /\ fs' = gone.fs
  /\ pend' = [pend EXCEPT !.stable = FALSE]
  /\ UNCHANGED <<pc, ret>>

----------------------------------------------------------------------------
(* Commands that read the file system *)

\* The ConfigPathInfo literal of get_path_info and of both make_info closures:
\* exists and is_dir are two queries, here of the same file system f.
MakeInfo(f, bytes) ==
  [exists |-> PathExists(f, Components(bytes)),
   is_dir |-> PathIsDir(f, Components(bytes)),
   path   |-> ToStringLossy(bytes)]

\* file_exists(path); `before` keeps the reply that was at hand when it was invoked.
FileExists(s) ==
  /\ pc = "idle"
  /\ \/ ret = None
     \/ ret.op = "get_path_info" /\ ret.arg = s
  /\ ret' = [op |-> "file_exists", arg |-> s, value |-> PathExists(fs, Components(s)),
             before |-> ret]
  /\ UNCHANGED <<fs, pc, pend>>

\* get_path_info(path), up to and including pb.exists()
GetPathInfoExists(s) ==
  /\ pc = "idle" /\ ret = None
  /\ pc' = "is_dir"
  /\ pend' = [path |-> s, exists |-> PathExists(fs, Components(s)), stable |-> TRUE]
  /\ UNCHANGED <<fs, ret>>

\* A get_path_info that returns the path rebuilt from its components.
GetPathInfoIsDirNormalized ==
  /\ pc = "is_dir"
  /\ pc' = "idle"
  /\ ret' = [op |-> "get_path_info", arg |-> pend.path, stable |-> pend.stable,
             value |-> [exists |-> pend.exists,
                        is_dir |-> PathIsDir(fs, Components(pend.path)),
                        path   |-> ToStringLossy(AbsBytes(Components(pend.path)))]]
  /\ pend' = None
  /\ UNCHANGED fs

\* get_path_info(path), from pb.is_dir() to the return; `stable` tells whether the
\* file system stayed as it was between the two queries.
GetPathInfoIsDir ==
  /\ pc = "is_dir"
  /\ pc' = "idle"
  /\ ret' = [op |-> "get_path_info", arg |-> pend.path, stable |-> pend.stable,
             value |-> [exists |-> pend.exists,
                        is_dir |-> PathIsDir(fs, Components(pend.path)),
                        path   |-> ToStringLossy(pend.path)]]
  /\ pend' = None
  /\ UNCHANGED fs

\* A has_claude_md that looks at the project's own CLAUDE.md only.
HasClaudeMdRootOnly(f, path) == PathExists(f, Append(path, ClaudeMd))

\* has_claude_md of list_projects
HasClaudeMd(f, path) ==
  PathExists(f, Append(path, ClaudeMd)) \/ PathExists(f, path \o <<DotClaude, ClaudeMd>>)

\* An is_project that leaves Cargo.toml out.
IsProjectNoCargo(f, path) ==
  \/ PathExists(f, Append(path, ClaudeMd)) \/ PathExists(f, path \o <<DotClaude, ClaudeMd>>)
  \/ PathExists(f, Append(path, DotGit))
  \/ PathExists(f, Append(path, PackageJson))
  \/ PathExists(f, Append(path, TsconfigJson))
  \/ PathExists(f, Append(path, PyprojectToml))
  \/ PathExists(f, Append(path, GoMod))

\* is_project of list_projects
IsProject(f, path) ==
  \/ HasClaudeMd(f, path)
  \/ PathExists(f, Append(path, DotGit))
  \/ PathExists(f, Append(path, PackageJson))
  \/ PathExists(f, Append(path, TsconfigJson))
  \/ PathExists(f, Append(path, PyprojectToml))
  \/ PathExists(f, Append(path, GoMod))
  \/ PathExists(f, Append(path, CargoToml))

\* The ProjectConfigFiles literal of list_projects
ConfigFiles(f, path) ==
  [claude_md_root      |-> MakeInfo(f, AbsBytes(Append(path, ClaudeMd))),
   claude_md_dotclaude |-> MakeInfo(f, AbsBytes(path \o <<DotClaude, ClaudeMd>>)),
   claude_local_md     |-> MakeInfo(f, AbsBytes(Append(path, ClaudeLocalMd))),
   settings            |-> MakeInfo(f, AbsBytes(path \o <<DotClaude, SettingsJson>>)),
   settings_local      |-> MakeInfo(f, AbsBytes(path \o <<DotClaude, SettingsLocalJson>>)),
   rules               |-> MakeInfo(f, AbsBytes(path \o <<DotClaude, Rules>>)),
   commands            |-> MakeInfo(f, AbsBytes(path \o <<DotClaude, Commands>>)),
   agents              |-> MakeInfo(f, AbsBytes(path \o <<DotClaude, Agents>>)),
   skills              |-> MakeInfo(f, AbsBytes(path \o <<DotClaude, Skills>>)),
   mcp                 |-> MakeInfo(f, AbsBytes(Append(path, DotMcpJson)))]

\* The ProjectInfo pushed for one entry
ProjectInfo(f, path) ==
  [id            |-> ToStringLossy(Last(path)),
   path          |-> ToStringLossy(AbsBytes(path)),
   name          |-> ToStringLossy(Last(path)),
   has_claude_md |-> HasClaudeMd(f, path),
   config_files  |-> ConfigFiles(f, path)]

\* The loop of list_projects over the entries from the i-th on
RECURSIVE ProjectsFrom(_, _, _)
ProjectsFrom(f, entries, i) ==
  IF i > Len(entries) THEN <<>>
  ELSE LET path == entries[i] IN
       (IF PathIsDir(f, path) /\ IsProject(f, path) THEN <<ProjectInfo(f, path)>> ELSE <<>>)
         \o ProjectsFrom(f, entries, i + 1)

\* list_projects(base_dir) on file system f
ListProjectsOn(f, base) ==
  LET read == ReadDir(f, base) IN
  IF read.ok THEN ProjectsFrom(f, read.entries, 1) ELSE <<>>

ListProjects(base) ==
  /\ pc = "idle" /\ ret = None
  /\ ret' = [op |-> "list_projects", base |-> base, value |-> ListProjectsOn(fs, base)]
  /\ UNCHANGED <<fs, pc, pend>>

\* matches!(name, "node_modules" | "target" | "dist" | "build" | "__pycache__" | "vendor" | ".git")
ExcludedNames == {NodeModules, Target, Dist, Build, PyCache, Vendor, DotGit}

\* str::starts_with('.')
StartsWithDot(s) == Len(s) > 0 /\ s[1] = DotGit[1]

\* The two `if let Some(name) = path.file_name().and_then(|n| n.to_str())` filters
Skipped(name) ==
  LET s == ToStr(name) IN
  \/ s # Nothing /\ StartsWithDot(s[1])
  \/ s # Nothing /\ s[1] \in ExcludedNames

\* path.strip_prefix(base).unwrap_or(&path), as to_string_lossy renders it
RelativeString(path, base) ==
  LET rel == StripPrefix(path, base) IN
  IF rel = Nothing THEN ToStringLossy(AbsBytes(path)) ELSE ToStringLossy(JoinBytes(rel[1]))

\* A scan that pushes the CLAUDE.local.md entry first.
FoundLocalFirst(f, base, path) ==
  (IF PathExists(f, Append(path, ClaudeLocalMd))
   THEN <<[relative_path |-> RelativeString(path, base) \o LocalSuffix,
           full_path     |-> ToStringLossy(AbsBytes(Append(path, ClaudeLocalMd))),
           exists        |-> TRUE]>>
   ELSE <<>>)
  \o
  (IF PathExists(f, Append(path, ClaudeMd))
   THEN <<[relative_path |-> RelativeString(path, base),
           full_path     |-> ToStringLossy(AbsBytes(Append(path, ClaudeMd))),
           exists        |-> TRUE]>>
   ELSE <<>>)

\* The SubdirClaudeMd pushed for path/CLAUDE.md and for path/CLAUDE.local.md
Found(f, base, path) ==
  (IF PathExists(f, Append(path, ClaudeMd))
   THEN <<[relative_path |-> RelativeString(path, base),
           full_path     |-> ToStringLossy(AbsBytes(Append(path, ClaudeMd))),
           exists        |-> TRUE]>>
   ELSE <<>>)
  \o
  (IF PathExists(f, Append(path, ClaudeLocalMd))
   THEN <<[relative_path |-> RelativeString(path, base) \o LocalSuffix,
           full_path     |-> ToStringLossy(AbsBytes(Append(path, ClaudeLocalMd))),
           exists        |-> TRUE]>>
   ELSE <<>>)

\* A depth check that is off by one.
TooDeepOffByOne(depth, max_depth) == depth > max_depth + 1

\* `if depth > max_depth { return; }`
TooDeep(depth, max_depth) == depth > max_depth

\* recurse(base, current, depth, max_depth, results) and its loop over the entries
\* from the i-th on.  acc carries results, with the calls made and the directories
\* handed to read_dir (each with its depth).  depth + 1 stays far below 2^32.
RECURSIVE Recurse(_, _, _, _, _, _), ScanEntries(_, _, _, _, _, _, _)

\* A recurse that gives up what it has found when a directory cannot be read.
RecurseFailFast(f, base, current, depth, max_depth, acc) ==
  LET called == [acc EXCEPT !.calls = Append(@, [dir |-> current, depth |-> depth])] IN
  IF TooDeep(depth, max_depth) THEN called
  ELSE LET read == ReadDir(f, current)
           listed == [called EXCEPT !.listed = Append(@, [dir |-> current, depth |-> depth])]
       IN IF read.ok THEN ScanEntries(f, base, read.entries, 1, depth, max_depth, listed)
          ELSE [listed EXCEPT !.results = <<>>]

Recurse(f, base, current, depth, max_depth, acc) ==
  LET called == [acc EXCEPT !.calls = Append(@, [dir |-> current, depth |-> depth])] IN
  IF TooDeep(depth, max_depth) THEN called
  ELSE LET read == ReadDir(f, current)
           listed == [called EXCEPT !.listed = Append(@, [dir |-> current, depth |-> depth])]
       IN IF read.ok THEN ScanEntries(f, base, read.entries, 1, depth, max_depth, listed)
          ELSE listed

ScanEntries(f, base, entries, i, depth, max_depth, acc) ==
  IF i > Len(entries) THEN acc
  ELSE LET path == entries[i] IN
       IF Skipped(Last(path)) \/ ~PathIsDir(f, path)
       THEN ScanEntries(f, base, entries, i + 1, depth, max_depth, acc)
       ELSE LET pushed == [acc EXCEPT !.results = @ \o Found(f, base, path)]
                below == Recurse(f, base, path, depth + 1, max_depth, pushed)
            IN ScanEntries(f, base, entries, i + 1, depth, max_depth, below)

\* max_depth.unwrap_or(5)
DefaultMaxDepth == 5
UnwrapOr(opt, default) == IF opt = Nothing THEN default ELSE opt[1]

\* discover_subdirectory_claude_md(project_path, max_depth) on file system f
DiscoverOn(f, base, opt_depth) ==
  Recurse(f, base, base, 0, UnwrapOr(opt_depth, DefaultMaxDepth),
          [results |-> <<>>, calls |-> <<>>, listed |-> <<>>])

DiscoverSubdirectoryClaudeMd(base, opt_depth) ==
  /\ pc = "idle" /\ ret = None
  /\ LET out == DiscoverOn(fs, base, opt_depth) IN
       ret' = [op |-> "discover_subdirectory_claude_md", base |-> base,
               max_depth |-> UnwrapOr(opt_depth, DefaultMaxDepth),
               value |-> out.results, calls |-> out.calls, listed |-> out.listed]
  /\ UNCHANGED <<fs, pc, pend>>

\* The scan once more, one call or one loop iteration of recurse at a time, the
\* nested calls on a stack of frames: the directory, its depth, and once read_dir
\* has returned its entries and the index of the next one.
Frame(dir, depth) ==
  [dir |-> dir, depth |-> depth, entered |-> FALSE, entries |-> <<>>, i |-> 1]

\* discover_subdirectory_claude_md up to the root call of recurse
ScanCall(base, opt_depth) ==
  /\ pc = "idle" /\ ret = None
  /\ pc' = "scan"
  /\ pend' = [op |-> "scan", base |-> base,
              max_depth |-> UnwrapOr(opt_depth, DefaultMaxDepth),
              stack |-> <<Frame(base, 0)>>,
              results |-> <<>>, calls |-> <<>>, listed |-> <<>>]
  /\ UNCHANGED <<fs, ret>>

\* The innermost call of recurse: its entry (the depth check and read_dir), or one
\* iteration of its loop, or its return once the entries are done.
ScanStep ==
  /\ pc = "scan" /\ pend.stack # <<>>
  /\ LET top == pend.stack[Len(pend.stack)]
         rest == SubSeq(pend.stack, 1, Len(pend.stack) - 1)
         here == [dir |-> top.dir, depth |-> top.depth]
     IN IF ~top.entered
        THEN IF TooDeep(top.depth, pend.max_depth)
             THEN pend' = [pend EXCEPT !.calls = Append(@, here), !.stack = rest]
             ELSE LET read == ReadDir(fs, top.dir) IN
                  pend' = [pend EXCEPT
                             !.calls = Append(@, here),
                             !.listed = Append(@, here),
                             !.stack = IF read.ok
                                       THEN Append(rest, [top EXCEPT !.entered = TRUE,
                                                                     !.entries = read.entries])
                                       ELSE rest]
        ELSE IF top.i > Len(top.entries)
             THEN pend' = [pend EXCEPT !.stack = rest]
             ELSE LET path == top.entries[top.i]
                      next == [top EXCEPT !.i = @ + 1]
                  IN IF Skipped(Last(path)) \/ ~PathIsDir(fs, path)
                     THEN pend' = [pend EXCEPT !.stack = Append(rest, next)]
                     ELSE pend' = [pend EXCEPT
                                     !.results = @ \o Found(fs, pend.base, path),
                                     !.stack = rest \o <<next, Frame(path, top.depth + 1)>>]
  /\ UNCHANGED <<fs, pc, ret>>

\* The root call has returned: discover_subdirectory_claude_md returns results.
ScanReturn ==
  /\ pc = "scan" /\ pend.stack = <<>>
  /\ pc' = "idle"
  /\ ret' = [op |-> "discover_subdirectory_claude_md", base |-> pend.base,
             max_depth |-> pend.max_depth,
             value |-> pend.results, calls |-> pend.calls, listed |-> pend.listed]
  /\ pend' = None
  /\ UNCHANGED fs

\* A comparison that does not lower the case of the names.
BeforeCaseSensitive(a, b) ==
  IF a.is_dir /\ ~b.is_dir THEN TRUE
  ELSE IF ~a.is_dir /\ b.is_dir THEN FALSE
  ELSE StrLess(a.name, b.name)

\* The closure handed to entries.sort_by: TRUE when a must come before b.
Before(a, b) ==
  IF a.is_dir /\ ~b.is_dir THEN TRUE
  ELSE IF ~a.is_dir /\ b.is_dir THEN FALSE
  ELSE StrLess(ToLowercase(a.name), ToLowercase(b.name))

\* slice::sort_by, a stable sort: e goes in front of the first element it must precede.
RECURSIVE InsertSorted(_, _)
InsertSorted(sorted, e) ==
  IF sorted = <<>> THEN <<e>>
  ELSE IF Before(e, Head(sorted)) THEN <<e>> \o sorted
  ELSE <<Head(sorted)>> \o InsertSorted(Tail(sorted), e)

RECURSIVE SortBy(_)
SortBy(entries) ==
  IF entries = <<>> THEN <<>>
  ELSE InsertSorted(SortBy(SubSeq(entries, 1, Len(entries) - 1)), entries[Len(entries)])

\* The DirectoryEntry pushed for one entry
DirectoryEntry(f, path) ==
  [name   |-> ToStringLossy(Last(path)),
   path   |-> ToStringLossy(AbsBytes(path)),
   is_dir |-> PathIsDir(f, path)]

\* list_directory(path) on file system f: [ok, entries], Ok(entries) or Err
ListDirectoryOn(f, p) ==
  LET read == ReadDir(f, p) IN
  IF read.ok
  THEN [ok |-> TRUE,
        entries |-> SortBy([i \in 1..Len(read.entries) |-> DirectoryEntry(f, read.entries[i])])]
  ELSE [ok |-> FALSE, entries |-> <<>>]

ListDirectory(p) ==
  /\ pc = "idle" /\ ret = None
  /\ ret' = [op |-> "list_directory", base |-> p, value |-> ListDirectoryOn(fs, p)]
  /\ UNCHANGED <<fs, pc, pend>>

\* The front end takes the reply; the next command is invoked after that.
Deliver ==
  /\ pc = "idle" /\ ret # None
  /\ ret' = None
  /\ UNCHANGED <<fs, pc, pend>>

----------------------------------------------------------------------------
(* Inputs *)

Dirs(f) == {q \in DOMAIN f : f[q].kind = "dir"}

\* Paths at most two components below a directory that exists.
NewDirPaths(f, D) ==
  LET one == {Append(d, n) : d \in Dirs(f), n \in D}
      two == {Append(p, n) : p \in one, n \in D}
  IN {p \in one \cup two : Len(p) <= MaxPathLen}

NewFilePaths(f, D, F) ==
  LET one == {Append(d, n) : d \in Dirs(f), n \in D}
  IN {p \in {Append(d, n) : d \in Dirs(f) \cup one, n \in F} : Len(p) <= MaxPathLen}

OldPaths(f) == (DOMAIN f \ {<<>>}) \cup {<<App, ClaudeMd>>}

Fits(f, nodes) ==
  /\ Cardinality(DOMAIN f) <= nodes + 1
  /\ Cardinality({q \in DOMAIN f : f[q].kind = "link"}) <= MaxLinks
  /\ Cardinality({q \in DOMAIN f : ~f[q].readable}) <= MaxUnreadable

\* The strings handed to get_path_info and file_exists.
InputStrings ==
  { SepStr \o App,                       \* "/app"
    SepStr \o App \o SepStr,             \* "/app/"
    SepStr \o App \o SepStr \o ClaudeMd  \* "/app/CLAUDE.md"
  }

\* The directories handed to list_projects, the scan and list_directory.
BasePaths == {<<>>, <<App>>, <<App, ClaudeMd>>}

DepthArgs == {Nothing} \cup {Some(d) : d \in 0..MaxDepthArg}

----------------------------------------------------------------------------
(* Specifications *)

Init ==
  /\ fs = (<<>> :> DirNode(<<>>, TRUE))
  /\ pc = "idle"
  /\ pend = None
  /\ ret = None

\* Discovery: the scan, the project list and the directory listing.
Next ==
  \/ \E p \in NewFilePaths(fs, DirNames, FileNames) : SaveConfigFile(p) /\ Fits(fs', MaxNodes)
  \/ \E p \in NewDirPaths(fs, DirNames) : CreateDirectory(p) /\ Fits(fs', MaxNodes)
  \/ \E p \in OldPaths(fs) : DeletePath(p)
  \/ \E q \in Dirs(fs) : Chmod(q) /\ Fits(fs', MaxNodes)
  \/ \E d \in Dirs(fs), n \in LinkNames :
       \E k \in 0..Len(d) : Symlink(d, n, k) /\ Fits(fs', MaxNodes)
  \/ \E b \in BasePaths : ListProjects(b)
  \/ \E b \in BasePaths, d \in DepthArgs : DiscoverSubdirectoryClaudeMd(b, d)
  \/ \E b \in BasePaths : ListDirectory(b)
  \/ Deliver

Spec == Init /\ [][Next]_vars

\* list_projects alone, over deeper trees of fewer names.
NextProjects ==
  \/ \E p \in NewFilePaths(fs, ProjectDirNames, ProjectFileNames) :
       SaveConfigFile(p) /\ Fits(fs', MaxProjectNodes)
  \/ \E p \in NewDirPaths(fs, ProjectDirNames) : CreateDirectory(p) /\ Fits(fs', MaxProjectNodes)
  \/ \E p \in OldPaths(fs) : DeletePath(p)
  \/ \E q \in Dirs(fs) : Chmod(q) /\ Fits(fs', MaxProjectNodes)
  \/ \E b \in BasePaths : ListProjects(b)
  \/ Deliver

SpecProjects == Init /\ [][NextProjects]_vars

\* get_path_info and file_exists, with another process at work.
NextInfo ==
  \/ \E p \in NewFilePaths(fs, InfoDirNames, InfoFileNames) :
       SaveConfigFile(p) /\ Fits(fs', MaxNodes)
  \/ \E p \in NewDirPaths(fs, InfoDirNames) : CreateDirectory(p) /\ Fits(fs', MaxNodes)
  \/ \E p \in OldPaths(fs) : DeletePath(p)
  \/ \E d \in Dirs(fs), n \in LinkNames :
       \E k \in 0..Len(d) : Symlink(d, n, k) /\ Fits(fs', MaxNodes)
  \/ ExternalChange /\ Fits(fs', MaxNodes)
  \/ \E b \in BasePaths : ListProjects(b)
  \/ \E s \in InputStrings : FileExists(s)
  \/ \E s \in InputStrings : GetPathInfoExists(s)
  \/ GetPathInfoIsDir
  \/ Deliver

SpecInfo == Init /\ [][NextInfo]_vars

\* The scan followed call by call.  The command runs on its thread until it
\* returns, so its steps are taken as long as they are possible.
NextSteps ==
  \/ \E p \in NewFilePaths(fs, StepDirNames, StepFileNames) :
       SaveConfigFile(p) /\ Fits(fs', MaxNodes)
  \/ \E p \in NewDirPaths(fs, StepDirNames) : CreateDirectory(p) /\ Fits(fs', MaxNodes)
  \/ \E p \in OldPaths(fs) : DeletePath(p)
  \/ \E q \in Dirs(fs) : Chmod(q) /\ Fits(fs', MaxNodes)
  \/ \E d \in Dirs(fs), n \in LinkNames :
       \E k \in 0..Len(d) : Symlink(d, n, k) /\ Fits(fs', MaxNodes)
  \/ \E d \in DepthArgs : ScanCall(<<>>, d)
  \/ ScanStep
  \/ ScanReturn
  \/ Deliver

SpecSteps == Init /\ [][NextSteps]_vars /\ WF_vars(ScanStep) /\ WF_vars(ScanReturn)

----------------------------------------------------------------------------
(* What the claims speak of, stated from the file system alone *)

ScanReply == ret.op = "discover_subdirectory_claude_md"
ProjectsReply == ret.op = "list_projects"
ListingReply == ret.op = "list_directory"

\* The name on disk that a component of a returned string stands for.
OnDisk(c) ==
  IF \E n \in DirNames \cup FileNames : ToStringLossy(n) = c
  THEN CHOOSE n \in DirNames \cup FileNames : ToStringLossy(n) = c
  ELSE c

\* The directory of a scan entry below the scan root, as the entry's full_path names it.
EntryDir(e, base) ==
  LET comps == Components(e.full_path) IN
  [k \in 1..(Len(comps) - 1 - Len(base)) |-> OnDisk(comps[Len(base) + k])]

\* A base name that starts with '.' or is on the exclusion list.
HiddenOrExcluded(name) ==
  \/ Len(name) > 0 /\ name[1] = 46
  \/ name \in {NodeModules, Target, Dist, Build, PyCache, Vendor, DotGit}

\* The directory at p can be listed: it exists, is a directory and may be read.
Listable(f, p) ==
  LET r == Resolve(f, p) IN r.ok /\ f[r.at].kind = "dir" /\ f[r.at].readable

\* The immediate children of the directory at p, readable or not.
Children(f, p) ==
  LET r == Resolve(f, p) IN
  IF r.ok /\ f[r.at].kind = "dir"
  THEN {Append(p, f[r.at].names[i]) : i \in 1..Len(f[r.at].names)}
  ELSE {}

\* The directories the scan is to check: reached from base through listable
\* directories by at most levels steps, each step to a child directory that is
\* neither hidden nor excluded.
RECURSIVE Eligible(_, _, _)
Eligible(f, from, levels) ==
  IF levels = 0 THEN {}
  ELSE LET next == {c \in UNION {IF Listable(f, p) THEN Children(f, p) ELSE {} : p \in from} :
                      ~HiddenOrExcluded(Last(c)) /\ PathIsDir(f, c)}
       IN next \cup Eligible(f, next, levels - 1)

PlainEntry(d, base) ==
  [relative_path |-> ToStringLossy(JoinBytes(SubSeq(d, Len(base) + 1, Len(d)))),
   full_path     |-> ToStringLossy(AbsBytes(Append(d, ClaudeMd))),
   exists        |-> TRUE]

LocalEntry(d, base) ==
  [relative_path |-> ToStringLossy(JoinBytes(SubSeq(d, Len(base) + 1, Len(d)))) \o LocalSuffix,
   full_path     |-> ToStringLossy(AbsBytes(Append(d, ClaudeLocalMd))),
   exists        |-> TRUE]

Range(seq) == {seq[i] : i \in 1..Len(seq)}

\* The markers that make a directory a project.
Markers ==
  {<<ClaudeMd>>, <<DotClaude, ClaudeMd>>, <<DotGit>>, <<PackageJson>>, <<TsconfigJson>>,
   <<PyprojectToml>>, <<GoMod>>, <<CargoToml>>}

Qualifies(f, c) == PathIsDir(f, c) /\ \E m \in Markers : PathExists(f, c \o m)

\* v holds exactly one record for each qualifying child of base, and nothing else.
ExactlyTheProjects(f, base, v) ==
  /\ Cardinality({v[i].path : i \in 1..Len(v)}) = Len(v)
  /\ {v[i].path : i \in 1..Len(v)}
       = {ToStringLossy(AbsBytes(c)) : c \in {c \in Children(f, base) : Qualifies(f, c)}}
  /\ \A i \in 1..Len(v) :
       LET c == Components(v[i].path) IN
       (Append(c, ClaudeMd) \notin DOMAIN f /\ c \o <<DotClaude, ClaudeMd>> \notin DOMAIN f)
         => ~v[i].has_claude_md

----------------------------------------------------------------------------
(* The claims *)

\* C1: the scan hands a directory to read_dir only when its depth counter (0 for
\* the root, one more per descent) is at most max_depth, so every entry names
\* CLAUDE.md or CLAUDE.local.md in a directory 1 to max_depth + 1 levels below the
\* root, and the root's own CLAUDE.md is never reported.
C1_DepthBound ==
  ScanReply =>
    /\ \A i \in 1..Len(ret.listed) :
         /\ ret.listed[i].depth <= ret.max_depth
         /\ ret.listed[i].depth = Len(ret.listed[i].dir) - Len(ret.base)
    /\ \A i \in 1..Len(ret.value) :
         LET comps == Components(ret.value[i].full_path)
             levels == Len(comps) - 1 - Len(ret.base)
         IN /\ IsPrefix(ret.base, comps)
            /\ levels >= 1
            /\ levels <= ret.max_depth + 1
            /\ Last(comps) \in {ClaudeMd, ClaudeLocalMd}
            /\ ret.value[i].full_path # ToStringLossy(AbsBytes(Append(ret.base, ClaudeMd)))

\* C1's case: with max_depth = 0 a CLAUDE.md two levels down is not reported.
C1_Witness ==
  /\ ScanReply /\ ret.base = <<>> /\ ret.max_depth = 0
  /\ <<App, Src, ClaudeMd>> \in DOMAIN fs
  /\ ret.value = <<>>
  /\ Len(ret.listed) = 1

\* C2: no entry lies in or below a directory under the scan root whose base name
\* starts with '.' or is one of the excluded names.
C2_NothingUnderSkipped ==
  ScanReply =>
    \A i \in 1..Len(ret.value) :
      \A n \in Range(EntryDir(ret.value[i], ret.base)) : ~HiddenOrExcluded(n)

\* C2, for names that are valid UTF-8 only: what the code does keep.
C2_HoldsForUtf8Names ==
  ScanReply =>
    \A i \in 1..Len(ret.value) :
      \A n \in Range(EntryDir(ret.value[i], ret.base)) :
        HiddenOrExcluded(n) => ~IsUtf8(n)

\* C3 as stated: for every base directory, list_projects returns exactly one
\* ProjectInfo per immediate child that is a directory with a marker, and nothing else.
C3_ExactlyTheProjects ==
  ProjectsReply => ExactlyTheProjects(fs, ret.base, ret.value)

\* C3 as amended: the same for every base directory that can be listed.
C3_ExactlyTheProjectsOfListable ==
  (ProjectsReply /\ Listable(fs, ret.base)) => ExactlyTheProjects(fs, ret.base, ret.value)

\* C3's case: a child with only Cargo.toml is listed, without has_claude_md, and a
\* child directory without a marker is not.
C3_Witness ==
  /\ ProjectsReply /\ ret.base = <<>>
  /\ <<App, CargoToml>> \in DOMAIN fs
  /\ <<DotClaude>> \in DOMAIN fs
  /\ Len(ret.value) = 1
  /\ ~ret.value[1].has_claude_md

\* C4: has_claude_md of a listed project is true exactly when its CLAUDE.md or its
\* .claude/CLAUDE.md exists, and so agrees with the two slots of its config_files.
C4_HasClaudeMd ==
  ProjectsReply =>
    \A i \in 1..Len(ret.value) :
      LET r == ret.value[i]
          c == Components(r.path)
      IN /\ r.has_claude_md
              = (Append(c, ClaudeMd) \in DOMAIN fs \/ c \o <<DotClaude, ClaudeMd>> \in DOMAIN fs)
         /\ r.has_claude_md
              = (r.config_files.claude_md_root.exists \/ r.config_files.claude_md_dotclaude.exists)

\* C4's case: a project with .claude/CLAUDE.md and no CLAUDE.md of its own.
C4_Witness ==
  /\ ProjectsReply /\ Len(ret.value) = 1
  /\ ret.value[1].has_claude_md
  /\ ~ret.value[1].config_files.claude_md_root.exists
  /\ ret.value[1].config_files.claude_md_dotclaude.exists

\* C5: every ConfigPathInfo returned satisfies is_dir => exists, also when another
\* process creates or deletes the path while the record is being built.
C5_IsDirImpliesExists ==
  /\ ret.op = "get_path_info" => (ret.value.is_dir => ret.value.exists)
  /\ ProjectsReply =>
       \A i \in 1..Len(ret.value) :
         \A slot \in DOMAIN ret.value[i].config_files :
           ret.value[i].config_files[slot].is_dir => ret.value[i].config_files[slot].exists

\* C6: list_directory returns one entry per child, directories before the rest,
\* each group in non-decreasing order of the lower-cased name.
C6_SortedListing ==
  (ListingReply /\ ret.value.ok) =>
    LET es == ret.value.entries IN
    /\ Len(es) = Cardinality(Children(fs, ret.base))
    /\ {es[i].path : i \in 1..Len(es)}
         = {ToStringLossy(AbsBytes(c)) : c \in Children(fs, ret.base)}
    /\ \A c \in Children(fs, ret.base) :
         [name |-> ToStringLossy(Last(c)), path |-> ToStringLossy(AbsBytes(c)),
          is_dir |-> PathIsDir(fs, c)] \in Range(es)
    /\ \A i, j \in 1..Len(es) :
         i < j =>
           /\ es[j].is_dir => es[i].is_dir
           /\ es[i].is_dir = es[j].is_dir
                => ~StrLess(ToLowercase(es[j].name), ToLowercase(es[i].name))

\* C6's case: "Src" and "app" are both directories of "/", read in the order Src,
\* app, with a file read before them; the listing has app, Src, then the file.
C6_Witness ==
  /\ ListingReply /\ ret.base = <<>> /\ ret.value.ok
  /\ fs[<<>>].names = <<CargoToml, Src, App>>
  /\ fs[<<Src>>].kind = "dir" /\ fs[<<App>>].kind = "dir"
  /\ ret.value.entries[1].name = App
  /\ ret.value.entries[2].name = Src
  /\ ret.value.entries[3].name = CargoToml

\* C7: for every eligible directory D within the depth bound, D/CLAUDE.md yields an
\* entry with D's relative path, D/CLAUDE.local.md one with " (local)" appended, the
\* plain one right before the local one; every entry has exists = true; and D is
\* descended into whether or not a file was found.
C7_EntriesOfEligible ==
  ScanReply =>
    /\ \A i \in 1..Len(ret.value) : ret.value[i].exists
    /\ \A d \in Eligible(fs, {ret.base}, ret.max_depth + 1) :
         /\ PathExists(fs, Append(d, ClaudeMd)) => PlainEntry(d, ret.base) \in Range(ret.value)
         /\ PathExists(fs, Append(d, ClaudeLocalMd)) => LocalEntry(d, ret.base) \in Range(ret.value)
         /\ (PathExists(fs, Append(d, ClaudeMd)) /\ PathExists(fs, Append(d, ClaudeLocalMd)))
              => \E i \in 1..(Len(ret.value) - 1) :
                    /\ ret.value[i] = PlainEntry(d, ret.base)
                    /\ ret.value[i + 1] = LocalEntry(d, ret.base)
         /\ \E i \in 1..Len(ret.calls) : ret.calls[i].dir = d

\* C7's case: /app holds both files and a subdirectory holding neither.
C7_Witness ==
  /\ ScanReply /\ ret.base = <<>> /\ ret.max_depth = 1
  /\ <<App, ClaudeMd>> \in DOMAIN fs /\ <<App, ClaudeLocalMd>> \in DOMAIN fs
  /\ Len(ret.value) = 2
  /\ ret.value[1].relative_path = App
  /\ ret.value[2].relative_path = App \o LocalSuffix

\* C8: while the file system does not change, get_path_info(p).exists equals
\* file_exists(p), and get_path_info(p).path is p as given.
C8_ExistsAgrees ==
  (ret.op = "file_exists" /\ ret.before.op = "get_path_info" /\ ret.before.stable) =>
    /\ ret.before.arg = ret.arg
    /\ ret.before.value.exists = ret.value
    /\ ret.before.value.path = ret.arg

\* C8's case: both calls on "/app/", which exists.
C8_Witness ==
  /\ ret.op = "file_exists" /\ ret.before.op = "get_path_info" /\ ret.before.stable
  /\ ret.arg = SepStr \o App \o SepStr
  /\ ret.value

NestingBound ==
  pc = "scan" =>
    /\ Len(pend.stack) <= pend.max_depth + 2
    /\ \A k \in 1..Len(pend.stack) :
         /\ pend.stack[k].depth = k - 1
         /\ pend.stack[k].depth = Len(pend.stack[k].dir) - Len(pend.base)
    /\ \A i \in 1..Len(pend.listed) : pend.listed[i].depth <= pend.max_depth

\* The scan followed call by call returns what the scan taken as a whole returns.
StepsAgree ==
  ScanReply =>
    [results |-> ret.value, calls |-> ret.calls, listed |-> ret.listed]
      = DiscoverOn(fs, ret.base, Some(ret.max_depth))

\* C10: the scan terminates on every file system, cycles included: the depth
\* counter grows by one per descent, no directory is listed at a depth above
\* max_depth, the nesting stays within max_depth + 1 calls below the root call,
\* and every scan that was started returns.
C10_Terminates ==
  /\ []NestingBound
  /\ (pc = "scan") ~> (pc = "idle" /\ ScanReply)

\* C10's case: /app is a symbolic link to /, and the scan of / with the default
\* depth has gone round the cycle until the depth check stopped it.
C10_Witness ==
  /\ ScanReply /\ ret.base = <<>> /\ ret.max_depth = DefaultMaxDepth
  /\ <<App>> \in DOMAIN fs /\ fs[<<App>>].kind = "link"
  /\ \E i \in 1..Len(ret.calls) :
       ret.calls[i].depth = DefaultMaxDepth + 1 /\ PathIsDir(fs, ret.calls[i].dir)

====
